---- MODULE Spec2Model ----
(***************************************************************************)
(* getapp-test-script.py: a synthetic-monitoring probe.  main() loops      *)
(* forever; every iteration builds an APITester and calls run_full_test,   *)
(* a linear pipeline of HTTP calls, then waits for the next cron slot.     *)
(*                                                                         *)
(* Modelling conventions                                                   *)
(*  - An optional Python value is a sequence of length <= 1: None is <<>>  *)
(*    and the value v is <<v>>.                                            *)
(*  - Opaque strings (ids, tokens, status words) are TLA+ strings.         *)
(*    Endpoints and URLs are sequences of tokens, where "/", "http",       *)
(*    "://", ".gpkg" and ".json" are always tokens of their own, so that   *)
(*    startswith('http'), lstrip('/') and replace('.gpkg', '.json') are    *)
(*    computed on the text as the code computes them.                      *)
(*  - Every _make_request is two steps: the request is sent (the gauge is  *)
(*    incremented), and later an answer arrives (a response with a status  *)
(*    code and a body, or a transport exception).                          *)
(*  - metrics holds the counter increments made by the step that just      *)
(*    ran (the sink is write-only: the program never reads a counter),     *)
(*    and result the pair that step got back from _make_request, if any.   *)
(*  - log is the history of the gateway calls and sleeps of the current    *)
(*    iteration of main's loop.                                            *)
(***************************************************************************)
EXTENDS Integers, Sequences, FiniteSets, TLC

VARIABLES
    schedule, username, password,      \* environment of the process
    pc,                                \* position of the single thread
    metrics_server,                    \* start_http_server(8000) was called
    auth_token, device_id, bbox_array, current_import_request_id, \* APITester
    status, retry_count,               \* locals of run_full_test (poll loop)
    only_processing,                   \* every earlier answer of the poll loop was 'Processing'
    download_url,                      \* local of run_full_test
    success_gpkg,                      \* local of download_files
    update_i,                          \* the loop "for _ in range(5)"
    health_i, all_healthy,             \* locals of check_health
    request,                           \* the request in flight, if any
    active_requests,                   \* the gauge getapp_active_requests
    metrics,                           \* counter increments of the last step
    result,                            \* what the _make_request that just returned gave its caller
    exit_status,                       \* the status the process exited with, if it did
    results,                           \* getapp-test-script-2.py: the results of run_tests so far
    logged,                            \* run-level message logged by the last step
    log,                               \* calls and sleeps of this iteration
    discarded                          \* which session fields the dropped tester had set

vars == <<schedule, username, password, pc, metrics_server, auth_token,
          device_id, bbox_array, current_import_request_id, status,
          retry_count, only_processing, download_url, success_gpkg, update_i,
          health_i, all_healthy, request, active_requests, metrics, result,
          exit_status, results, logged, log, discarded>>

envVars == <<schedule, username, password>>
sessionVars == <<auth_token, device_id, bbox_array, current_import_request_id>>
localVars == <<status, retry_count, download_url, success_gpkg, update_i,
               health_i, all_healthy>>
ghostVars == <<only_processing>>

---------------------------------------------------------------------------
(* Optional values and text *)

None == <<>>
Some(v) == <<v>>

\* Python truthiness of an optional string: None and "" are falsy.
TruthyStr(o) == o # None /\ o[1] # ""

\* Python truthiness of an optional text (token sequence).
TruthyText(o) == o # None /\ Len(o[1]) > 0

\* str.startswith('http')
StartsWithHttp(s) == Len(s) > 0 /\ s[1] = "http"

\* The text begins with a URL scheme, "http://" or "https://".
HasScheme(s) ==
    /\ Len(s) >= 2
    /\ s[1] = "http"
    /\ \/ s[2] = "://"
       \/ Len(s) >= 3 /\ s[2] = "s" /\ s[3] = "://"

\* str.startswith('/')
StartsWithSlash(s) == Len(s) > 0 /\ s[1] = "/"

RECURSIVE LStripSlash(_)
\* str.lstrip('/')
LStripSlash(s) ==
    IF Len(s) > 0 /\ s[1] = "/" THEN LStripSlash(Tail(s)) ELSE s

\* The .json asset requested under the URL of the .gpkg asset.
ReplaceGpkg_none(s) == s

\* str.replace('.gpkg', '.json')
ReplaceGpkg(s) == [i \in 1..Len(s) |-> IF s[i] = ".gpkg" THEN ".json" ELSE s[i]]

\* An optional string interpolated into an f-string.
Fmt(o) == IF o = None THEN <<"None">> ELSE IF o[1] = "" THEN <<>> ELSE <<o[1]>>

\* An optional string used as a Prometheus label value (str(value)).
Label(o) == IF o = None THEN "None" ELSE o[1]

Range(s) == {s[i] : i \in 1..Len(s)}

---------------------------------------------------------------------------
(* Program constants *)

BASE_URL == <<"http", "s", "://", "api-getapp-dev">>

max_retries == 30

SleepSeconds == 2

UpdateRepeats == 5

EP_LOGIN == <<"/", "api", "/", "login">>
EP_DISCOVER == <<"/", "api", "/", "device", "/", "discover">>
EP_IMPORT_CREATE == <<"/", "api", "/", "map", "/", "import", "/", "create">>
EP_IMPORT_STATUS == <<"/", "api", "/", "map", "/", "import", "/", "status", "/">>
EP_UPDATE_STATUS == <<"/", "api", "/", "delivery", "/", "updateDownloadStatus">>
EP_PREPARE == <<"/", "api", "/", "delivery", "/", "prepareDelivery">>
EP_PREPARED == <<"/", "api", "/", "delivery", "/", "preparedDelivery", "/">>
EP_INVENTORY == <<"/", "api", "/", "map", "/", "inventory", "/", "updates">>

endpoints == <<
    <<"/", "api", "/", "delivery", "/", "checkHealth">>,
    <<"/", "api", "/", "device", "/", "checkHealth">>,
    <<"/", "api", "/", "offering", "/", "checkHealth">>,
    <<"/", "api", "/", "map", "/", "checkHealth">> >>

---------------------------------------------------------------------------
(* The inputs the environment can supply *)

Schedules == {"*/5 * * * *", "every day"}

\* croniter(SCHEDULE) accepts the expression
CroniterAccepts(s) == s = "*/5 * * * *"

Credentials == {None, Some(""), Some("monitor")}

DeviceIds == {"python-1000", "python-9999"}

BboxArrays == {<<"34.47284907,31.51967512,34.47627734,31.52243356">>}

AccessTokens == {None, Some(""), Some("tok-1")}

ImportRequestIds == {None, Some(""), Some("abc123")}

StatusValues == {None, Some("Processing"), Some("Done"), Some("Error"),
                 Some("Pending")}

PreparedUrls == {None, Some(<<>>),
                 Some(<<"/", "files", "/", "abc123", ".gpkg">>),
                 Some(<<"files", "/", "abc123", ".gpkg">>),
                 Some(<<"http", "://", "cdn", "/", "abc123", ".gpkg">>),
                 Some(<<"/", "files", "/", "abc123">>),
                 Some(<<"http", "-tiles", "/", "abc123", ".gpkg">>)}

ExceptionKinds == {"ConnectionError", "Timeout"}

StatusCodes == {200, 302, 404, 500}

WaitTimes == {0, 60}

\* The answers to one request whose JSON body is read for one key with
\* the possible values `values`: a transport exception, an error status,
\* or a success status whose body is not JSON or holds one of the values.
Answers(values) ==
    {[exc |-> Some(k), status_code |-> 0, valid |-> FALSE, value |-> None]
        : k \in ExceptionKinds}
    \cup {[exc |-> None, status_code |-> c, valid |-> TRUE, value |-> None]
        : c \in {c \in StatusCodes : c >= 400}}
    \cup {[exc |-> None, status_code |-> c, valid |-> FALSE, value |-> None]
        : c \in {c \in StatusCodes : c < 400}}
    \cup {[exc |-> None, status_code |-> c, valid |-> TRUE, value |-> v]
        : c \in {c \in StatusCodes : c < 400}, v \in values}

\* requests refuses a URL without a scheme before anything is sent.
MissingSchema ==
    [exc |-> Some("MissingSchema"), status_code |-> 0, valid |-> FALSE,
     value |-> None]

\* The answers to a request whose body the caller never reads.
PlainAnswers ==
    {[exc |-> Some(k), status_code |-> 0, valid |-> FALSE, value |-> None]
        : k \in ExceptionKinds}
    \cup {[exc |-> None, status_code |-> c, valid |-> TRUE, value |-> None]
        : c \in StatusCodes}

---------------------------------------------------------------------------
(* _make_request *)

\* The URL a request goes to.
MakeUrl(endpoint) ==
    IF StartsWithHttp(endpoint)
    THEN endpoint
    ELSE BASE_URL \o <<"/">> \o LStripSlash(endpoint)

\* The value of `endpoint` the metrics are labelled with: the local name
\* is rebound by lstrip on the relative branch.
EndpointLabel(endpoint) ==
    IF StartsWithHttp(endpoint) THEN endpoint ELSE LStripSlash(endpoint)

\* The Authorization header: attached only when auth_token is truthy.
Bearer == IF TruthyStr(auth_token) THEN auth_token ELSE None

\* _make_request up to and including requests.get / requests.post.
make_request_send(method, endpoint, json_data) ==
    LET req == [op |-> "call", method |-> method, url |-> MakeUrl(endpoint),
                endpoint |-> EndpointLabel(endpoint), bearer |-> Bearer,
                json |-> json_data]
    IN  /\ request' = Some(req)
        /\ active_requests' = active_requests + 1
        /\ log' = Append(log, req)

\* The second component of _make_request's result.
Success(r) == r.exc = None /\ r.status_code < 400

\* bool(response): None is falsy, a Response is truthy iff it is ok.
ResponseTruthy(r) == r.exc = None /\ r.status_code < 400

ErrorType(code) == IF code < 500 THEN "client_error" ELSE "server_error"

\* request_counter incremented before the request is sent.
RequestCounted_always(r) == << <<request[1].endpoint, request[1].method>> >>

\* Increments of request_counter made while answer r is handled.
RequestCounted(r) ==
    IF r.exc = None
    THEN << <<request[1].endpoint, request[1].method>> >>
    ELSE <<>>

\* Increments of failed_requests made while answer r is handled.
RequestFailed(r) ==
    IF r.exc # None
    THEN << <<request[1].endpoint, 0, r.exc[1]>> >>
    ELSE IF r.status_code >= 400
         THEN << <<request[1].endpoint, r.status_code, ErrorType(r.status_code)>> >>
         ELSE <<>>

\* The increments of one step: those of _make_request for answer r, and
\* those the caller adds.
Recorded(r, tf, df, isf) ==
    [request_counter |-> RequestCounted(r),
     failed_requests |-> RequestFailed(r),
     test_failures |-> tf,
     download_failures |-> df,
     import_status_failures |-> isf]

\* The pair (response, success) _make_request returns for answer r; the
\* response is None after an exception.
Result(r) ==
    [response |-> IF r.exc = None
                  THEN Some([status_code |-> r.status_code, valid |-> r.valid,
                             value |-> r.value])
                  ELSE None,
     success |-> Success(r)]

\* No _make_request returned in this step.
NoResult == [response |-> None, success |-> FALSE]

\* A step in which _make_request returned with answer r.
Returned(r, tf, df, isf) ==
    /\ metrics' = Recorded(r, tf, df, isf)
    /\ result' = Result(r)

\* The increments of a step that handles no answer.
RecordedOnly(tf) ==
    [request_counter |-> <<>>, failed_requests |-> <<>>, test_failures |-> tf,
     download_failures |-> <<>>, import_status_failures |-> <<>>]

NoMetrics == RecordedOnly(<<>>)

\* _make_request without its finally clause.
make_request_return_leak ==
    /\ request # None
    /\ request' = None
    /\ UNCHANGED active_requests

\* The rest of _make_request: the finally clause.
make_request_return ==
    /\ request # None
    /\ request' = None
    /\ active_requests' = active_requests - 1

\* A step that sends nothing.
NoRequest == UNCHANGED <<request, active_requests, log>>

\* time.sleep(seconds)
Sleep(seconds) == [op |-> "sleep", seconds |-> seconds]

---------------------------------------------------------------------------
(* Process start-up *)

Init ==
    /\ schedule \in Schedules
    /\ username \in Credentials
    /\ password \in Credentials
    /\ pc = "module"
    /\ metrics_server = FALSE
    /\ auth_token = None
    /\ device_id = ""
    /\ bbox_array = <<>>
    /\ current_import_request_id = None
    /\ status = None
    /\ retry_count = 0
    /\ only_processing = TRUE
    /\ download_url = None
    /\ success_gpkg = FALSE
    /\ update_i = 0
    /\ health_i = 1
    /\ all_healthy = TRUE
    /\ request = None
    /\ active_requests = 0
    /\ metrics = NoMetrics
    /\ result = NoResult
    /\ exit_status = None
    /\ results = <<>>
    /\ logged = ""
    /\ log = <<>>
    /\ discarded = [auth_token |-> FALSE, current_import_request_id |-> FALSE]

\* sys.exit(1) when croniter rejects the expression.
Exit(s) == IF CroniterAccepts(s) THEN None ELSE Some(1)

\* The module without the try/except around croniter(SCHEDULE).
ValidateSchedule_unchecked ==
    /\ pc = "module"
    /\ pc' = "main"
    /\ exit_status' = None
    /\ metrics' = NoMetrics /\ result' = NoResult
    /\ NoRequest
    /\ UNCHANGED <<envVars, results, ghostVars, sessionVars, localVars, metrics_server, logged,
                   discarded>>

\* Module level: the cron expression is validated, sys.exit(1) if invalid.
ValidateSchedule ==
    /\ pc = "module"
    /\ pc' = IF CroniterAccepts(schedule) THEN "main" ELSE "exit"
    /\ exit_status' = Exit(schedule)
    /\ metrics' = NoMetrics /\ result' = NoResult
    /\ NoRequest
    /\ UNCHANGED <<envVars, results, ghostVars, sessionVars, localVars, metrics_server, logged,
                   discarded>>

\* main() up to the loop: start_http_server(8000).
StartMain ==
    /\ pc = "main"
    /\ metrics_server' = TRUE
    /\ pc' = "loop"
    /\ metrics' = NoMetrics /\ result' = NoResult
    /\ NoRequest
    /\ UNCHANGED <<envVars, results, exit_status, ghostVars, sessionVars, localVars, logged, discarded>>

---------------------------------------------------------------------------
(* The scheduler loop and the session *)

\* The tester built once, before the loop, and reused by every iteration.
APITester_reused ==
    IF device_id = ""
    THEN /\ auth_token' = None
         /\ device_id' \in DeviceIds
         /\ bbox_array' \in BboxArrays
         /\ current_import_request_id' = None
    ELSE UNCHANGED sessionVars

\* APITester.__init__: a fresh session.
APITester_init ==
    /\ auth_token' = None
    /\ device_id' \in DeviceIds
    /\ bbox_array' \in BboxArrays
    /\ current_import_request_id' = None

\* The top of main's loop: tester = APITester(); tester.run_full_test()
\* is entered.
NewTester ==
    /\ pc = "loop"
    /\ APITester_init
    /\ discarded' = [auth_token |-> auth_token # None,
                     current_import_request_id |-> current_import_request_id # None]
    /\ status' = None
    /\ retry_count' = 0
    /\ only_processing' = TRUE
    /\ download_url' = None
    /\ success_gpkg' = FALSE
    /\ update_i' = 0
    /\ health_i' = 1
    /\ all_healthy' = TRUE
    /\ log' = <<>>
    /\ logged' = ""
    /\ metrics' = NoMetrics /\ result' = NoResult
    /\ pc' = "login"
    /\ UNCHANGED <<envVars, results, exit_status, metrics_server, request, active_requests>>

\* run_full_test returns early, or reaches its last line, with a message.
Return(message) ==
    /\ pc' = "wait"
    /\ logged' = message

\* The step that raised is tried again instead of leaving run_full_test.
Raise_retry == UNCHANGED <<pc, logged>>

\* An exception leaves run_full_test.
Raise ==
    /\ pc' = "except"
    /\ UNCHANGED logged

\* An except clause that records the error and lets it through.
main_except_reraise ==
    /\ pc = "except"
    /\ metrics' = RecordedOnly(<< <<"run_full_test", "unexpected_error">> >>)
    /\ result' = NoResult
    /\ logged' = "Error during test run"
    /\ pc' = "exit"
    /\ NoRequest
    /\ UNCHANGED <<envVars, results, exit_status, ghostVars, sessionVars, localVars, metrics_server,
                   discarded>>

\* The except clause of main's loop.
main_except ==
    /\ pc = "except"
    /\ metrics' = RecordedOnly(<< <<"run_full_test", "unexpected_error">> >>)
    /\ result' = NoResult
    /\ logged' = "Error during test run"
    /\ pc' = "wait"
    /\ NoRequest
    /\ UNCHANGED <<envVars, results, exit_status, ghostVars, sessionVars, localVars, metrics_server, discarded>>

\* wait_until_next_run: sleeps only if the next slot is in the future.
wait_until_next_run ==
    /\ pc = "wait"
    /\ \E wait_time \in WaitTimes :
          log' = IF wait_time > 0 THEN Append(log, Sleep(wait_time)) ELSE log
    /\ pc' = "loop"
    /\ metrics' = NoMetrics /\ result' = NoResult
    /\ UNCHANGED <<envVars, results, exit_status, ghostVars, sessionVars, localVars, metrics_server, request,
                   active_requests, logged, discarded>>

---------------------------------------------------------------------------
(* Step 1: login *)

\* "if not username or not password"
MissingCredentials == ~TruthyStr(username) \/ ~TruthyStr(password)

login ==
    /\ pc = "login"
    /\ IF MissingCredentials
       THEN /\ Raise
            /\ NoRequest
       ELSE /\ make_request_send("POST", EP_LOGIN,
                    Some([username |-> username[1], password |-> password[1]]))
            /\ pc' = "login_resp"
            /\ UNCHANGED logged
    /\ metrics' = NoMetrics /\ result' = NoResult
    /\ UNCHANGED <<envVars, results, exit_status, ghostVars, sessionVars, localVars, metrics_server, discarded>>

\* What login does with the answer r: "ok", "raise" or "fail".
LoginOutcome(r) ==
    IF Success(r) /\ ResponseTruthy(r)
    THEN IF r.valid THEN "ok" ELSE "raise"
    ELSE "fail"

login_return ==
    /\ pc = "login_resp"
    /\ make_request_return
    /\ \E r \in Answers(AccessTokens) :
         /\ CASE LoginOutcome(r) = "ok" ->
                   /\ auth_token' = r.value
                   /\ pc' = "discover"
                   /\ UNCHANGED logged
                   /\ Returned(r, <<>>, <<>>, <<>>)
              [] LoginOutcome(r) = "raise" ->
                   /\ Raise
                   /\ UNCHANGED auth_token
                   /\ Returned(r, <<>>, <<>>, <<>>)
              [] OTHER ->
                   /\ Return("Login failed")
                   /\ UNCHANGED auth_token
                   /\ Returned(r, << <<"login", "auth_failed">> >>,
                                          <<>>, <<>>)
    /\ UNCHANGED <<envVars, results, exit_status, ghostVars, device_id, bbox_array, current_import_request_id,
                   localVars, metrics_server, log, discarded>>

---------------------------------------------------------------------------
(* Step 2: discovery *)

discovery ==
    /\ pc = "discover"
    /\ make_request_send("POST", EP_DISCOVER,
            Some([discoveryType |-> "get-map", ID |-> device_id]))
    /\ pc' = "discover_resp"
    /\ metrics' = NoMetrics /\ result' = NoResult
    /\ UNCHANGED <<envVars, results, exit_status, ghostVars, sessionVars, localVars, metrics_server, logged,
                   discarded>>

discovery_return ==
    /\ pc = "discover_resp"
    /\ make_request_return
    /\ \E r \in PlainAnswers :
         IF Success(r)
         THEN /\ pc' = "import"
              /\ UNCHANGED logged
              /\ Returned(r, <<>>, <<>>, <<>>)
         ELSE /\ Return("Discovery failed")
              /\ Returned(r, << <<"discovery", "api_error">> >>,
                                     <<>>, <<>>)
    /\ UNCHANGED <<envVars, results, exit_status, ghostVars, sessionVars, localVars, metrics_server, log,
                   discarded>>

---------------------------------------------------------------------------
(* Step 3: import_map, which ends in update_download_status *)

import_map ==
    /\ pc = "import"
    /\ \E bbox \in Range(bbox_array) :
         make_request_send("POST", EP_IMPORT_CREATE,
            Some([deviceId |-> device_id, boundingBox |-> bbox]))
    /\ pc' = "import_resp"
    /\ metrics' = NoMetrics /\ result' = NoResult
    /\ UNCHANGED <<envVars, results, exit_status, ghostVars, sessionVars, localVars, metrics_server, logged,
                   discarded>>

\* What import_map does with the answer r: "ok", "raise" or "fail".
ImportOutcome(r) ==
    IF Success(r) /\ ResponseTruthy(r)
    THEN IF r.valid THEN "ok" ELSE "raise"
    ELSE "fail"

import_map_return ==
    /\ pc = "import_resp"
    /\ make_request_return
    /\ \E r \in Answers(ImportRequestIds) :
         /\ CASE ImportOutcome(r) = "ok" ->
                   /\ current_import_request_id' = r.value
                   /\ pc' = "import_update"
                   /\ UNCHANGED logged
                   /\ Returned(r, <<>>, <<>>, <<>>)
              [] ImportOutcome(r) = "raise" ->
                   /\ Raise
                   /\ UNCHANGED current_import_request_id
                   /\ Returned(r, <<>>, <<>>, <<>>)
              [] OTHER ->
                   /\ Return("Map import failed")
                   /\ UNCHANGED current_import_request_id
                   /\ Returned(r, << <<"import_map", "create_failed">> >>,
                                          <<>>, <<>>)
    /\ UNCHANGED <<envVars, results, exit_status, ghostVars, auth_token, device_id, bbox_array, localVars,
                   metrics_server, log, discarded>>

---------------------------------------------------------------------------
(* update_download_status, called from import_map (pc "import_update"),   *)
(* from run_full_test after the poll (pc "update") and five times after   *)
(* the download (pc "update5")                                             *)

AwaitPc(site) ==
    CASE site = "import_update" -> "import_update_resp"
      [] site = "update" -> "update_resp"
      [] site = "update5" -> "update5_resp"

\* "while status not in ['Done', 'Error'] and retry_count < max_retries"
LoopContinues(st, count) ==
    st \notin {Some("Done"), Some("Error")} /\ count < max_retries

update_download_status(site) ==
    /\ pc = site
    /\ make_request_send("POST", EP_UPDATE_STATUS,
            Some([deviceId |-> device_id,
                  catalogId |-> current_import_request_id,
                  deliveryStatus |-> "Start"]))
    /\ pc' = AwaitPc(site)
    /\ only_processing' = TRUE
    /\ metrics' = NoMetrics /\ result' = NoResult
    /\ UNCHANGED <<envVars, results, exit_status, sessionVars, localVars, metrics_server, logged,
                   discarded>>

\* The increments of update_download_status for answer r.
UpdateFailures(r) ==
    IF Success(r)
    THEN <<>>
    ELSE << <<"update_download_status", "status_update_failed_Start">> >>

\* import_map undoing its write when the update that follows fails.
import_update_return_rollback ==
    /\ pc = "import_update_resp"
    /\ make_request_return
    /\ \E r \in PlainAnswers :
         /\ Returned(r, UpdateFailures(r), <<>>, <<>>)
         /\ IF Success(r)
            THEN /\ status' = Some("Processing")
                 /\ retry_count' = 0
                 /\ pc' = IF LoopContinues(Some("Processing"), 0)
                          THEN "poll" ELSE "update"
                 /\ UNCHANGED <<logged, current_import_request_id>>
            ELSE /\ Return("Map import failed")
                 /\ current_import_request_id' = None
                 /\ UNCHANGED <<status, retry_count>>
    /\ UNCHANGED <<envVars, results, exit_status, ghostVars, auth_token, device_id, bbox_array,
                   download_url, success_gpkg, update_i, health_i, all_healthy,
                   metrics_server, log, discarded>>

\* import_map returns what update_download_status returned; run_full_test
\* stops if that is False and otherwise enters the poll loop.
import_update_return ==
    /\ pc = "import_update_resp"
    /\ make_request_return
    /\ \E r \in PlainAnswers :
         /\ Returned(r, UpdateFailures(r), <<>>, <<>>)
         /\ IF Success(r)
            THEN /\ status' = Some("Processing")
                 /\ retry_count' = 0
                 /\ pc' = IF LoopContinues(Some("Processing"), 0)
                          THEN "poll" ELSE "update"
                 /\ UNCHANGED logged
            ELSE /\ Return("Map import failed")
                 /\ UNCHANGED <<status, retry_count>>
    /\ UNCHANGED <<envVars, results, exit_status, ghostVars, sessionVars, download_url, success_gpkg, update_i,
                   health_i, all_healthy, metrics_server, log, discarded>>

\* run_full_test ignores the result of the call after the poll loop.
update_return ==
    /\ pc = "update_resp"
    /\ make_request_return
    /\ \E r \in PlainAnswers :
         Returned(r, UpdateFailures(r), <<>>, <<>>)
    /\ pc' = "prepare_post"
    /\ UNCHANGED <<envVars, results, exit_status, ghostVars, sessionVars, localVars, metrics_server, logged, log,
                   discarded>>

\* A round of the loop that gates the run on the result of the update.
update5_return_gated ==
    /\ pc = "update5_resp"
    /\ make_request_return
    /\ \E r \in PlainAnswers :
         /\ Returned(r, UpdateFailures(r), <<>>, <<>>)
         /\ IF Success(r)
            THEN /\ pc' = IF update_i + 1 < UpdateRepeats
                          THEN "update5" ELSE "inventory"
                 /\ UNCHANGED logged
            ELSE Return("Update download status failed")
    /\ log' = Append(log, Sleep(SleepSeconds))
    /\ update_i' = update_i + 1
    /\ UNCHANGED <<envVars, results, exit_status, ghostVars, sessionVars, status, retry_count, download_url,
                   success_gpkg, health_i, all_healthy, metrics_server,
                   discarded>>

\* One round of "for _ in range(5)": the result is ignored, then sleep(2).
update5_return ==
    /\ pc = "update5_resp"
    /\ make_request_return
    /\ \E r \in PlainAnswers :
         Returned(r, UpdateFailures(r), <<>>, <<>>)
    /\ log' = Append(log, Sleep(SleepSeconds))
    /\ update_i' = update_i + 1
    /\ pc' = IF update_i + 1 < UpdateRepeats THEN "update5" ELSE "inventory"
    /\ UNCHANGED <<envVars, results, exit_status, ghostVars, sessionVars, status, retry_count, download_url,
                   success_gpkg, health_i, all_healthy, metrics_server, logged,
                   discarded>>

---------------------------------------------------------------------------
(* Step 4: the poll loop of run_full_test around check_import_status *)

\* check_import_status without its guard.
NoRequestId_unguarded == FALSE

\* "if not self.current_import_request_id"
NoRequestId == ~TruthyStr(current_import_request_id)

check_import_status ==
    /\ pc = "poll"
    /\ IF NoRequestId
       THEN /\ metrics' = RecordedOnly(<< <<"import_status", "no_request_id">> >>)
            /\ result' = NoResult
            /\ status' = Some("Error")
            /\ Return("Import status check failed")
            /\ NoRequest
       ELSE /\ make_request_send("GET",
                    EP_IMPORT_STATUS \o Fmt(current_import_request_id), None)
            /\ pc' = "poll_resp"
            /\ metrics' = NoMetrics /\ result' = NoResult
            /\ UNCHANGED <<status, logged>>
    /\ UNCHANGED <<envVars, results, exit_status, ghostVars, sessionVars, retry_count, download_url,
                   success_gpkg, update_i, health_i, all_healthy,
                   metrics_server, discarded>>

\* The increments of import_status_failures for a status read from a body.
StatusAnomaly(st) ==
    IF st \notin {Some("Done"), Some("Error")} THEN << <<Label(st)>> >> ELSE <<>>

\* run_full_test after check_import_status returned st.
PollStep(st) ==
    /\ status' = st
    /\ only_processing' = (only_processing /\ status = Some("Processing"))
    /\ IF st = Some("Error")
       THEN /\ Return("Import status check failed")
            /\ UNCHANGED <<retry_count, log>>
       ELSE /\ retry_count' = retry_count + 1
            /\ log' = Append(log, Sleep(SleepSeconds))
            /\ pc' = IF LoopContinues(st, retry_count + 1) THEN "poll" ELSE "update"
            /\ UNCHANGED logged

check_import_status_return ==
    /\ pc = "poll_resp"
    /\ make_request_return
    /\ \E r \in Answers(StatusValues) :
         CASE ~Success(r) \/ ~ResponseTruthy(r) ->
                /\ Returned(r, <<>>, <<>>, << <<"api_error">> >>)
                /\ PollStep(Some("Error"))
           [] Success(r) /\ ResponseTruthy(r) /\ ~r.valid ->
                /\ Returned(r, <<>>, <<>>, <<>>)
                /\ Raise
                /\ UNCHANGED <<status, retry_count, only_processing, log>>
           [] OTHER ->
                /\ Returned(r, <<>>, <<>>, StatusAnomaly(r.value))
                /\ PollStep(r.value)
    /\ UNCHANGED <<envVars, results, exit_status, sessionVars, download_url, success_gpkg, update_i,
                   health_i, all_healthy, metrics_server, discarded>>

---------------------------------------------------------------------------
(* Step 6: prepare_delivery, a POST and then a GET *)

prepare_delivery ==
    /\ pc = "prepare_post"
    /\ make_request_send("POST", EP_PREPARE,
            Some([catalogId |-> current_import_request_id,
                  deviceId |-> device_id, itemType |-> "map"]))
    /\ pc' = "prepare_post_resp"
    /\ metrics' = NoMetrics /\ result' = NoResult
    /\ UNCHANGED <<envVars, results, exit_status, ghostVars, sessionVars, localVars, metrics_server, logged,
                   discarded>>

\* prepare_delivery going on to the GET whatever the POST returned.
prepare_delivery_posted_ungated ==
    /\ pc = "prepare_post_resp"
    /\ make_request_return
    /\ \E r \in PlainAnswers :
         Returned(r, <<>>, <<>>, <<>>)
    /\ pc' = "prepare_get"
    /\ UNCHANGED <<envVars, results, exit_status, ghostVars, sessionVars, localVars, metrics_server, logged,
                   log, discarded>>

\* The first phase returns: "if not success: ... return None".
prepare_delivery_posted ==
    /\ pc = "prepare_post_resp"
    /\ make_request_return
    /\ \E r \in PlainAnswers :
         IF Success(r)
         THEN /\ pc' = "prepare_get"
              /\ Returned(r, <<>>, <<>>, <<>>)
              /\ UNCHANGED <<download_url, logged>>
         ELSE /\ Returned(r,
                    << <<"prepare_delivery", "preparation_failed">> >>, <<>>, <<>>)
              /\ download_url' = None
              /\ Return("Prepare delivery failed")
    /\ UNCHANGED <<envVars, results, exit_status, ghostVars, sessionVars, status, retry_count, success_gpkg,
                   update_i, health_i, all_healthy, metrics_server, log,
                   discarded>>

prepare_delivery_get ==
    /\ pc = "prepare_get"
    /\ make_request_send("GET",
            EP_PREPARED \o Fmt(current_import_request_id), None)
    /\ pc' = "prepare_get_resp"
    /\ metrics' = NoMetrics /\ result' = NoResult
    /\ UNCHANGED <<envVars, results, exit_status, ghostVars, sessionVars, localVars, metrics_server, logged,
                   discarded>>

\* "If the URL is relative, make it absolute"
ResolveUrl(url) ==
    IF TruthyText(url) /\ ~StartsWithHttp(url[1])
    THEN IF StartsWithSlash(url[1])
         THEN Some(BASE_URL \o url[1])
         ELSE Some(BASE_URL \o <<"/">> \o url[1])
    ELSE url

prepare_delivery_return ==
    /\ pc = "prepare_get_resp"
    /\ make_request_return
    /\ \E r \in Answers(PreparedUrls) :
         CASE ~Success(r) \/ ~ResponseTruthy(r) ->
                /\ Returned(r,
                      << <<"prepare_delivery", "get_url_failed">> >>, <<>>, <<>>)
                /\ download_url' = None
                /\ Return("Prepare delivery failed")
           [] Success(r) /\ ResponseTruthy(r) /\ ~r.valid ->
                /\ Returned(r, <<>>, <<>>, <<>>)
                /\ Raise
                /\ UNCHANGED download_url
           [] OTHER ->
                /\ Returned(r, <<>>, <<>>, <<>>)
                /\ download_url' = ResolveUrl(r.value)
                /\ IF ~TruthyText(ResolveUrl(r.value))
                   THEN Return("Prepare delivery failed")
                   ELSE /\ pc' = "download_gpkg"
                        /\ UNCHANGED logged
    /\ UNCHANGED <<envVars, results, exit_status, ghostVars, sessionVars, status, retry_count, success_gpkg,
                   update_i, health_i, all_healthy, metrics_server, log,
                   discarded>>

---------------------------------------------------------------------------
(* Step 7: download_files, the .gpkg and then the .json *)

download_files ==
    /\ pc = "download_gpkg"
    /\ IF ~TruthyText(download_url)
       THEN /\ metrics' = RecordedOnly(<< <<"download_files", "no_url">> >>)
            /\ result' = NoResult
            /\ Return("File download failed")
            /\ NoRequest
       ELSE /\ make_request_send("GET", download_url[1], None)
            /\ pc' = "download_gpkg_resp"
            /\ metrics' = NoMetrics /\ result' = NoResult
            /\ UNCHANGED logged
    /\ UNCHANGED <<envVars, results, exit_status, ghostVars, sessionVars, localVars, metrics_server, discarded>>

\* The answers to a download: an endpoint that begins with 'http' is
\* requested as it stands, and one without a scheme cannot be sent.
DownloadAnswers ==
    IF HasScheme(request[1].url) THEN PlainAnswers ELSE {MissingSchema}

\* The increments of download_failures for one asset.
DownloadFailures(success, file_type) ==
    IF success THEN <<>> ELSE << <<file_type>> >>

download_gpkg_return ==
    /\ pc = "download_gpkg_resp"
    /\ make_request_return
    /\ \E r \in DownloadAnswers :
         /\ success_gpkg' = Success(r)
         /\ Returned(r, <<>>, DownloadFailures(Success(r), "gpkg"), <<>>)
    /\ pc' = "download_json"
    /\ UNCHANGED <<envVars, results, exit_status, ghostVars, sessionVars, status, retry_count, download_url,
                   update_i, health_i, all_healthy, metrics_server, logged, log,
                   discarded>>

download_json ==
    /\ pc = "download_json"
    /\ make_request_send("GET", ReplaceGpkg(download_url[1]), None)
    /\ pc' = "download_json_resp"
    /\ metrics' = NoMetrics /\ result' = NoResult
    /\ UNCHANGED <<envVars, results, exit_status, ghostVars, sessionVars, localVars, metrics_server, logged,
                   discarded>>

\* "return success_json": the first result is forgotten.
DownloadResult_last(gpkg, json) == json

\* "return success_gpkg and success_json"
DownloadResult(gpkg, json) == gpkg /\ json

download_json_return ==
    /\ pc = "download_json_resp"
    /\ make_request_return
    /\ \E r \in DownloadAnswers :
         /\ Returned(r, <<>>, DownloadFailures(Success(r), "json"), <<>>)
         /\ IF DownloadResult(success_gpkg, Success(r))
            THEN /\ update_i' = 0
                 /\ pc' = "update5"
                 /\ UNCHANGED logged
            ELSE /\ Return("File download failed")
                 /\ UNCHANGED update_i
    /\ UNCHANGED <<envVars, results, exit_status, ghostVars, sessionVars, status, retry_count, download_url,
                   success_gpkg, health_i, all_healthy, metrics_server, log,
                   discarded>>

---------------------------------------------------------------------------
(* Step 8: update_inventory *)

update_inventory ==
    /\ pc = "inventory"
    /\ make_request_send("POST", EP_INVENTORY,
            Some([deviceId |-> device_id,
                  inventory |-> current_import_request_id]))
    /\ pc' = "inventory_resp"
    /\ metrics' = NoMetrics /\ result' = NoResult
    /\ UNCHANGED <<envVars, results, exit_status, ghostVars, sessionVars, localVars, metrics_server, logged,
                   discarded>>

update_inventory_return ==
    /\ pc = "inventory_resp"
    /\ make_request_return
    /\ \E r \in PlainAnswers :
         IF Success(r)
         THEN /\ Returned(r, <<>>, <<>>, <<>>)
              /\ health_i' = 1
              /\ all_healthy' = TRUE
              /\ pc' = "health"
              /\ UNCHANGED logged
         ELSE /\ Returned(r,
                    << <<"update_inventory", "update_failed">> >>, <<>>, <<>>)
              /\ Return("Inventory update failed")
              /\ UNCHANGED <<health_i, all_healthy>>
    /\ UNCHANGED <<envVars, results, exit_status, ghostVars, sessionVars, status, retry_count, download_url,
                   success_gpkg, update_i, metrics_server, log, discarded>>

---------------------------------------------------------------------------
(* Step 9: check_health over the fixed endpoint list *)

check_health ==
    /\ pc = "health"
    /\ make_request_send("GET", endpoints[health_i], None)
    /\ pc' = "health_resp"
    /\ metrics' = NoMetrics /\ result' = NoResult
    /\ UNCHANGED <<envVars, results, exit_status, ghostVars, sessionVars, localVars, metrics_server, logged,
                   discarded>>

\* The loop of check_health goes on to the next endpoint.
MoreEndpoints(i) == i < Len(endpoints)

\* check_health returning at the first failing endpoint.
check_health_short_circuit ==
    /\ pc = "health_resp"
    /\ make_request_return
    /\ \E r \in PlainAnswers :
         /\ Returned(r,
               IF Success(r) THEN <<>>
               ELSE << <<"health_check", endpoints[health_i]>> >>, <<>>, <<>>)
         /\ all_healthy' = (all_healthy /\ Success(r))
         /\ IF MoreEndpoints(health_i) /\ Success(r)
            THEN /\ health_i' = health_i + 1
                 /\ pc' = "health"
                 /\ UNCHANGED logged
            ELSE /\ UNCHANGED health_i
                 /\ IF all_healthy /\ Success(r)
                    THEN Return("All tests completed successfully")
                    ELSE Return("Health checks failed")
    /\ UNCHANGED <<envVars, results, exit_status, ghostVars, sessionVars, status, retry_count,
                   download_url, success_gpkg, update_i, metrics_server, log,
                   discarded>>

check_health_return ==
    /\ pc = "health_resp"
    /\ make_request_return
    /\ \E r \in PlainAnswers :
         /\ Returned(r,
               IF Success(r) THEN <<>>
               ELSE << <<"health_check", endpoints[health_i]>> >>, <<>>, <<>>)
         /\ all_healthy' = (all_healthy /\ Success(r))
         /\ IF MoreEndpoints(health_i)
            THEN /\ health_i' = health_i + 1
                 /\ pc' = "health"
                 /\ UNCHANGED logged
            ELSE /\ UNCHANGED health_i
                 /\ IF all_healthy /\ Success(r)
                    THEN Return("All tests completed successfully")
                    ELSE Return("Health checks failed")
    /\ UNCHANGED <<envVars, results, exit_status, ghostVars, sessionVars, status, retry_count, download_url,
                   success_gpkg, update_i, metrics_server, log, discarded>>

---------------------------------------------------------------------------
(* The program *)

Next ==
    \/ ValidateSchedule
    \/ StartMain
    \/ NewTester
    \/ login
    \/ login_return
    \/ discovery
    \/ discovery_return
    \/ import_map
    \/ import_map_return
    \/ update_download_status("import_update")
    \/ import_update_return
    \/ check_import_status
    \/ check_import_status_return
    \/ update_download_status("update")
    \/ update_return
    \/ prepare_delivery
    \/ prepare_delivery_posted
    \/ prepare_delivery_get
    \/ prepare_delivery_return
    \/ download_files
    \/ download_gpkg_return
    \/ download_json
    \/ download_json_return
    \/ update_download_status("update5")
    \/ update5_return
    \/ update_inventory
    \/ update_inventory_return
    \/ check_health
    \/ check_health_return
    \/ main_except
    \/ wait_until_next_run

Spec == Init /\ [][Next]_vars

\* Every request is answered and every sleep ends: the single thread
\* always takes its next step.
FairSpec == Spec /\ WF_vars(Next)

---------------------------------------------------------------------------
(* Reading the history *)

HasPrefix(s, prefix) ==
    Len(s) >= Len(prefix) /\ SubSeq(s, 1, Len(prefix)) = prefix

IsCall(e) == e.op = "call"

IsSleep(e) == e.op = "sleep"

IsStatusCall(e) ==
    IsCall(e) /\ HasPrefix(e.endpoint, LStripSlash(EP_IMPORT_STATUS))

IsUpdateCall(e) == IsCall(e) /\ e.endpoint = LStripSlash(EP_UPDATE_STATUS)

IsHealthCall(e) ==
    IsCall(e) /\ \E i \in 1..Len(endpoints) : e.endpoint = LStripSlash(endpoints[i])

Count(l, P(_)) == Len(SelectSeq(l, P))

\* The position of the last status poll in the history, 0 if none.
LastStatusCall(l) ==
    LET at == {i \in 1..Len(l) : IsStatusCall(l[i])}
    IN  IF at = {} THEN 0 ELSE CHOOSE i \in at : \A j \in at : j <= i

Terminal == {Some("Done"), Some("Error")}

---------------------------------------------------------------------------
(* Claims *)

\* C1: when polls 1..N-1 answer 'Processing' and poll N answers 'Done',
\* the poll loop ends after exactly N status calls and N-1 sleeps: no
\* sleep follows the poll that answered 'Done'.
C1_DoneAfterNPolls ==
    (pc = "update" /\ status = Some("Done") /\ only_processing)
        => /\ Count(log, IsStatusCall) = retry_count
           /\ Count(log, IsSleep) = Count(log, IsStatusCall) - 1

\* C2: when the status endpoint never answers 'Done' or 'Error', exactly
\* 30 status calls are made and the run is then aborted: no gateway call
\* follows the last poll and the run does not complete.
C2_ExhaustedAborts ==
    (retry_count = max_retries /\ status \notin Terminal)
        => /\ Count(log, IsStatusCall) = max_retries
           /\ \A i \in 1..Len(log) :
                 i > LastStatusCall(log) => ~IsCall(log[i])
           /\ logged # "All tests completed successfully"

\* C3: current_import_request_id is null until an import-create call has
\* succeeded (it is written only by a successful import_map, and reset
\* only by a new session), and no request of prepare_delivery,
\* download_files or update_inventory is in flight while it is null.
C3_RequestIdNullUntilImport ==
    /\ [][current_import_request_id' # current_import_request_id
            => \/ pc = "import_resp" /\ pc' = "import_update"
               \/ pc = "loop" /\ current_import_request_id' = None]_vars
    /\ [](pc \in {"login", "login_resp", "discover", "discover_resp",
                  "import", "import_resp"}
            => current_import_request_id = None)
    /\ [](pc \in {"prepare_post_resp", "prepare_get_resp",
                  "download_gpkg_resp", "download_json_resp", "inventory_resp"}
            => request # None /\ current_import_request_id # None)

\* C3 witness: import-create succeeded without an importRequestId and the
\* run stopped at the status check, before any later step sent a request.
C3_Witness ==
    /\ pc = "wait"
    /\ current_import_request_id = None
    /\ logged = "Import status check failed"
    /\ metrics.test_failures = << <<"import_status", "no_request_id">> >>
    /\ Count(log, IsUpdateCall) = 1

\* C4: no updateDownloadStatus request is ever sent with a null catalog id.
C4_NoUpdateWithNullId ==
    \A i \in 1..Len(log) :
        IsUpdateCall(log[i]) => log[i].json[1].catalogId # None

\* C5: with a credential missing, login sends no request, the run ends
\* with a failure recorded as login/auth_failed, and no later step runs.
C5_MissingCredentials ==
    MissingCredentials
        => /\ Count(log, IsCall) = 0
           /\ pc \in {"module", "exit", "main", "loop", "login", "except", "wait"}
           /\ pc = "wait" => metrics.test_failures = << <<"login", "auth_failed">> >>

\* C6: a login answer without accessToken aborts the run at Login: every
\* gateway call made after the login call carries a bearer token.
C6_BearerAfterLogin ==
    Count(log, IsCall) >= 2
        => /\ auth_token # None
           /\ \A i \in 2..Len(log) : IsCall(log[i]) => log[i].bearer = auth_token

\* C7: download_files with a non-empty URL requests the primary asset and
\* then the sibling whatever the first answer was, succeeds iff both
\* answers are successes, and increments download_failures once per
\* failed asset, labelled 'gpkg' or 'json', and never for a success.
C7_DownloadBothAssets ==
    [][/\ (pc = "download_gpkg" /\ TruthyText(download_url))
            => /\ pc' = "download_gpkg_resp"
               /\ request' # None
               /\ request'[1].method = "GET"
               /\ request'[1].url = download_url[1]
       /\ pc = "download_gpkg_resp"
            => /\ pc' = "download_json"
               /\ success_gpkg' = (metrics'.failed_requests = <<>>)
               /\ metrics'.download_failures =
                     IF metrics'.failed_requests = <<>> THEN <<>>
                     ELSE << <<"gpkg">> >>
       /\ pc = "download_json"
            => /\ pc' = "download_json_resp"
               /\ request' # None
               /\ request'[1].method = "GET"
               /\ request'[1].url = ReplaceGpkg(download_url[1])
       /\ pc = "download_json_resp"
            => /\ metrics'.download_failures =
                     IF metrics'.failed_requests = <<>> THEN <<>>
                     ELSE << <<"json">> >>
               /\ (pc' = "update5")
                     = (success_gpkg /\ metrics'.failed_requests = <<>>)
               /\ pc' # "update5"
                     => pc' = "wait" /\ logged' = "File download failed"
      ]_vars

\* C7 witness: the primary asset was fetched, the sibling failed, and the
\* step reported failure with one 'json' increment.
C7_Witness ==
    /\ pc = "wait"
    /\ logged = "File download failed"
    /\ success_gpkg
    /\ metrics.download_failures = << <<"json">> >>

\* The URLs of the health calls made so far, in order.
HealthUrls(l) ==
    LET calls == SelectSeq(l, IsHealthCall)
    IN  [i \in 1..Len(calls) |-> calls[i].url]

\* C8: check_health calls the 4 health endpoints in list order whatever
\* the answers, returns true iff all 4 succeed, and records one
\* health_check failure, labelled with the endpoint, per failing endpoint.
C8_HealthAllEndpoints ==
    /\ [](pc \in {"health", "health_resp"}
            => HealthUrls(log) =
                 [i \in 1..(IF pc = "health" THEN health_i - 1 ELSE health_i)
                    |-> MakeUrl(endpoints[i])])
    /\ [](pc = "health" /\ health_i = 1 => all_healthy)
    /\ [][pc = "health_resp"
            => /\ metrics'.test_failures =
                     IF metrics'.failed_requests = <<>> THEN <<>>
                     ELSE << <<"health_check", endpoints[health_i]>> >>
               /\ all_healthy' = (all_healthy /\ metrics'.failed_requests = <<>>)]_vars
    /\ [](logged \in {"All tests completed successfully", "Health checks failed"}
            => /\ HealthUrls(log) = [i \in 1..4 |-> MakeUrl(endpoints[i])]
               /\ (logged = "All tests completed successfully") = all_healthy)

\* C8 witness: the health check failed although its last endpoint
\* answered well, so an earlier failure did not stop the loop.
C8_Witness ==
    /\ pc = "wait"
    /\ logged = "Health checks failed"
    /\ metrics.test_failures = <<>>
    /\ metrics.failed_requests = <<>>
    /\ Count(log, IsHealthCall) = 4

\* C9: an error raised during a run is caught in main, recorded as exactly
\* one run_full_test/unexpected_error failure, and the loop goes on: after
\* every run, however it ended, another run eventually starts.
C9_SchedulerSurvives ==
    /\ [][pc = "except"
            => /\ pc' = "wait"
               /\ metrics'.test_failures
                     = << <<"run_full_test", "unexpected_error">> >>]_vars
    /\ (pc \in {"wait", "except"}) ~> (pc = "login")

\* C9 witness: a run raised, and the error was recorded at the boundary.
C9_Witness ==
    /\ pc = "wait"
    /\ logged = "Error during test run"
    /\ metrics.test_failures = << <<"run_full_test", "unexpected_error">> >>

\* C10: every run starts at Login with a fresh session: auth_token and
\* current_import_request_id are null, whatever the previous run set.
C10_FreshSession ==
    pc = "login"
        => /\ auth_token = None
           /\ current_import_request_id = None
           /\ Count(log, IsCall) = 0

\* C10 witness: a run starts after a run that had set both fields.
C10_Witness ==
    /\ pc = "login"
    /\ discarded.auth_token
    /\ discarded.current_import_request_id
    /\ auth_token = None
    /\ current_import_request_id = None

\* The gateway calls of a history in the order they were issued, each as
\* <<method, URL>>.
Calls(l) ==
    LET calls == SelectSeq(l, IsCall)
    IN  [i \in 1..Len(calls) |-> <<calls[i].method, calls[i].url>>]

\* k copies of the call c.
Repeat(c, k) == [i \in 1..k |-> c]

\* The calls of one pass of check_health.
HealthCalls == [i \in 1..Len(endpoints) |-> <<"GET", MakeUrl(endpoints[i])>>]

UpdateCall == <<"POST", MakeUrl(EP_UPDATE_STATUS)>>

\* The end-to-end scenario: the run completed with request id "abc123",
\* the first status poll answered 'Done', and the prepared URL was resolved
\* to {base_url}/files/abc123.gpkg.
EndToEnd ==
    /\ logged = "All tests completed successfully"
    /\ username # None /\ password # None
    /\ current_import_request_id = Some("abc123")
    /\ status = Some("Done") /\ retry_count = 1
    /\ download_url =
         Some(BASE_URL \o <<"/", "files", "/", "abc123", ".gpkg">>)

\* The calls from the status poll to the last health check.
FromPoll ==
    << <<"GET", MakeUrl(EP_IMPORT_STATUS \o <<"abc123">>)>>,
       UpdateCall,
       <<"POST", MakeUrl(EP_PREPARE)>>,
       <<"GET", MakeUrl(EP_PREPARED \o <<"abc123">>)>>,
       <<"GET", BASE_URL \o <<"/", "files", "/", "abc123", ".gpkg">> >>,
       <<"GET", BASE_URL \o <<"/", "files", "/", "abc123", ".json">> >> >>
    \o Repeat(UpdateCall, UpdateRepeats)
    \o << <<"POST", MakeUrl(EP_INVENTORY)>> >>
    \o HealthCalls

UpToImport ==
    << <<"POST", MakeUrl(EP_LOGIN)>>,
       <<"POST", MakeUrl(EP_DISCOVER)>>,
       <<"POST", MakeUrl(EP_IMPORT_CREATE)>> >>

\* Every one of the last UpdateRepeats calls to updateDownloadStatus is
\* directly followed by a sleep of SleepSeconds.
RepeatedUpdatesSleep(l) ==
    LET at == {i \in 1..Len(l) : IsUpdateCall(l[i])}
        last == {i \in at : Cardinality({j \in at : j > i}) < UpdateRepeats}
    IN  /\ Cardinality(last) = UpdateRepeats
        /\ \A i \in last : i < Len(l) /\ l[i + 1] = Sleep(SleepSeconds)

\* C11 (as stated): in the end-to-end scenario the gateway calls are, in
\* order, login, discover, import-create, one status poll, one
\* updateDownloadStatus, prepare POST, prepared GET, the .gpkg and the
\* .json download, five updateDownloadStatus, update-inventory and four
\* health checks.
C11_EndToEndOrder ==
    EndToEnd => Calls(log) = UpToImport \o FromPoll

\* C11 (amended): in the end-to-end scenario the gateway calls are, in
\* order, login, discover, import-create, the updateDownloadStatus that
\* import_map issues, one status poll, one updateDownloadStatus, prepare
\* POST, prepared GET, the .gpkg and the .json download, five
\* updateDownloadStatus each followed by a 2-unit sleep, update-inventory
\* and four health checks.
C11_EndToEndOrderAmended ==
    EndToEnd
        => /\ Calls(log) = UpToImport \o <<UpdateCall>> \o FromPoll
           /\ RepeatedUpdatesSleep(log)

C11_Witness ==
    /\ EndToEnd
    /\ Len(Calls(log)) = 20
    /\ result.success

\* The positions at which the single request of a step of run_full_test,
\* other than a repeated post-download update, returns.
GatedReturns ==
    {"login_resp", "discover_resp", "import_resp", "import_update_resp",
     "poll_resp", "update_resp", "prepare_post_resp", "prepare_get_resp",
     "inventory_resp"}

\* The run has ended without completing.
Aborted ==
    pc \in {"wait", "except"} /\ logged # "All tests completed successfully"

\* C12: once a step other than the five repeated post-download updates
\* fails, the run is aborted: no call of a later step is issued and
\* completion is not logged.  A step fails when its request fails, when
\* one of the two downloads fails, or when one of the health checks failed.
C12_FailureAborts ==
    [][/\ (pc \in GatedReturns /\ ~result'.success) => Aborted'
       /\ (pc = "download_json_resp" /\ ~(success_gpkg /\ result'.success))
             => Aborted'
       /\ (pc = "health_resp" /\ ~MoreEndpoints(health_i) /\ ~all_healthy')
             => Aborted']_vars

\* The error_type labels of the failed_requests increments of the last step.
ErrorTypes == {metrics.failed_requests[i][3] :
                  i \in 1..Len(metrics.failed_requests)}

\* C13: _make_request reports success iff the status is in 200..299,
\* client_error iff it is in 400..499, server_error iff it is in 500..599,
\* and a network-level failure as an error that carries the failure kind;
\* no status outside 200..299 is reported as success.
C13_StatusClassification ==
    IF result.response # None
    THEN LET code == result.response[1].status_code
         IN  /\ result.success <=> code \in 200..299
             /\ "client_error" \in ErrorTypes <=> code \in 400..499
             /\ "server_error" \in ErrorTypes <=> code \in 500..599
    ELSE /\ ~result.success
         /\ ErrorTypes \subseteq ExceptionKinds \cup {"MissingSchema"}

\* C14: with an invalid schedule expression the process exits with a
\* non-zero status before the metrics server is started and before any
\* run or gateway call; with a valid expression it never exits.
C14_InvalidScheduleExits ==
    /\ (~CroniterAccepts(schedule) /\ pc # "module")
          => /\ pc = "exit"
             /\ exit_status # None /\ exit_status[1] # 0
             /\ ~metrics_server
             /\ log = <<>> /\ request = None /\ active_requests = 0
             /\ logged = "" /\ metrics = NoMetrics
    /\ CroniterAccepts(schedule) => (pc # "exit" /\ exit_status = None)

C14_Witness ==
    /\ ~CroniterAccepts(schedule)
    /\ pc = "exit"
    /\ exit_status = Some(1)

\* The calls issued since the last download, each as <<method, URL>>.
CallsAfterDownload(l) ==
    LET calls == Calls(l)
        at == {i \in 1..Len(calls) :
                  calls[i] = <<"GET", ReplaceGpkg(download_url[1])>>}
        from == IF at = {} THEN 0 ELSE CHOOSE i \in at : \A j \in at : j <= i
    IN  SubSeq(calls, from + 1, Len(calls))

UpdateFailed ==
    << <<"update_download_status", "status_update_failed_Start">> >>

\* C15: a failure of the first updateDownloadStatus of the run (the one
\* import_map issues) aborts the run; a failure of one of the repeated
\* post-download updates never does: the step goes on to the next update
\* or to update_inventory, nothing is logged and the failure is recorded
\* as one test_failures event, and update_inventory is reached only after
\* all UpdateRepeats updates have been issued since the download.
C15_UpdateFailurePolicy ==
    [][/\ (pc = "import_update_resp" /\ ~result'.success)
             => (Aborted' /\ logged' = "Map import failed")
       /\ pc = "update5_resp"
             => /\ pc' \in {"update5", "inventory"}
                /\ logged' = logged
                /\ metrics'.test_failures =
                      IF result'.success THEN <<>> ELSE UpdateFailed
       /\ (pc # "inventory" /\ pc' = "inventory")
             => /\ pc = "update5_resp"
                /\ CallsAfterDownload(log') = Repeat(UpdateCall, UpdateRepeats)
       /\ (pc = "download_json_resp" /\ success_gpkg /\ result'.success)
             => pc' = "update5"]_vars

C15_Witness ==
    /\ pc = "inventory"
    /\ ~result.success
    /\ metrics.test_failures = UpdateFailed
    /\ CallsAfterDownload(log) = Repeat(UpdateCall, UpdateRepeats)

IsPreparedCall(e) ==
    IsCall(e) /\ HasPrefix(e.endpoint, LStripSlash(EP_PREPARED))

\* The body of the answer that just returned carries a non-empty url.
CarriesUrl(res) ==
    /\ res.response # None
    /\ res.response[1].valid
    /\ TruthyText(res.response[1].value)

PrepareFailed(failure_reason) == << <<"prepare_delivery", failure_reason>> >>

\* C16: prepare_delivery is two-phase.  The GET is issued only after the
\* POST succeeded; when the POST fails or the GET fails the run is aborted
\* with exactly one prepare_delivery failure reason recorded; when the GET
\* answer carries no url the run is aborted too; download_files is entered
\* only after a successful GET that carried a url.
C16_PrepareTwoPhase ==
    [][/\ (pc # "prepare_get" /\ pc' = "prepare_get")
             => (pc = "prepare_post_resp" /\ result'.success)
       /\ (pc = "prepare_post_resp" /\ ~result'.success)
             => /\ Aborted' /\ logged' = "Prepare delivery failed"
                /\ download_url' = None
                /\ metrics'.test_failures = PrepareFailed("preparation_failed")
       /\ (pc = "prepare_get_resp" /\ ~result'.success)
             => /\ Aborted' /\ logged' = "Prepare delivery failed"
                /\ download_url' = None
                /\ metrics'.test_failures = PrepareFailed("get_url_failed")
       /\ (pc = "prepare_get_resp" /\ result'.success /\ ~CarriesUrl(result'))
             => /\ Aborted'
                /\ ~TruthyText(download_url')
                /\ metrics'.test_failures = <<>>
       /\ (pc # "download_gpkg" /\ pc' = "download_gpkg")
             => /\ pc = "prepare_get_resp"
                /\ result'.success /\ CarriesUrl(result')
                /\ TruthyText(download_url')]_vars

C16_Witness ==
    /\ logged = "Prepare delivery failed"
    /\ metrics.test_failures = PrepareFailed("preparation_failed")
    /\ Count(log, IsPreparedCall) = 0
    /\ download_url = None

\* The path p of the relative forms "/p" and "p".
RelativePath(u) == IF StartsWithSlash(u) THEN Tail(u) ELSE u

\* C17: a relative url returned by prepared-delivery, in the form "/p" or
\* "p", is resolved to base_url + "/" + p; the URL of every request whose
\* endpoint does not begin with a full URL scheme is base_url joined to the
\* endpoint with exactly one slash, and an endpoint that begins with a full
\* URL scheme is used verbatim.
C17_UrlConstruction ==
    [][/\ (pc = "prepare_get_resp" /\ pc' = "download_gpkg")
             => LET u == result'.response[1].value[1]
                IN  download_url' =
                       IF HasScheme(u) THEN Some(u)
                       ELSE Some(BASE_URL \o <<"/">> \o RelativePath(u))
       /\ (request = None /\ request' # None)
             => LET e == request'[1]
                IN  IF HasScheme(e.endpoint)
                    THEN e.url = e.endpoint
                    ELSE /\ ~StartsWithSlash(e.endpoint)
                         /\ e.url = BASE_URL \o <<"/">> \o e.endpoint]_vars

\* A step in which _make_request returns.
MakeRequestReturns == request # None /\ request' = None

C19_AnomalyOnlyUnexpected ==
    [][(pc = "poll_resp" /\ result'.success /\ result'.response[1].valid)
          => LET st == result'.response[1].value
                 anomalies == metrics'.import_status_failures
             IN  /\ st \notin {Some("Processing"), Some("Done"), Some("Error")}
                       => /\ anomalies = << <<Label(st)>> >>
                          /\ retry_count' = retry_count + 1
                          /\ pc' = IF retry_count' < max_retries
                                   THEN "poll" ELSE "update"
                 /\ st \in {Some("Processing"), Some("Done")}
                       => anomalies = <<>>]_vars

\* C20: within one run (every step but the construction of the tester)
\* device_id and bbox_array never change; auth_token changes only when a
\* login request returns with success and current_import_request_id only
\* when an import-create request returns with success; so every other step
\* leaves the four fields unchanged, and a step whose request fails changes
\* none of them.
C20_SessionFrame ==
    [][pc # "loop"
          => /\ device_id' = device_id
             /\ bbox_array' = bbox_array
             /\ auth_token' # auth_token
                   => (pc = "login_resp" /\ result'.success)
             /\ current_import_request_id' # current_import_request_id
                   => (pc = "import_resp" /\ result'.success)
             /\ (MakeRequestReturns /\ ~result'.success)
                   => UNCHANGED sessionVars]_vars

C20_Witness ==
    /\ logged = "Inventory update failed"
    /\ ~result.success
    /\ TruthyStr(auth_token)
    /\ TruthyStr(current_import_request_id)

\* C21: the gauge active_requests is 1 exactly while a request is in
\* flight and 0 otherwise (every _make_request increments it once and its
\* finally clause decrements it once, whatever the outcome), so it is never
\* negative, never above 1, and 0 when a run has ended.
C21_GaugeBalanced ==
    /\ active_requests \in {0, 1}
    /\ active_requests = IF request # None THEN 1 ELSE 0
    /\ pc \in {"module", "exit", "main", "loop", "wait", "except"}
          => active_requests = 0

\* A request ended in an exception and the gauge is back at 0.
C21_Witness ==
    /\ request = None
    /\ active_requests = 0
    /\ result.response = None
    /\ Len(metrics.failed_requests) = 1
    /\ metrics.failed_requests[1][2] = 0

\* A sleep of the fixed interval, as made inside run_full_test.
IsFixedSleep(e) == IsSleep(e) /\ e.seconds = SleepSeconds

\* The run has ended: run_full_test returned or raised.
RunEnded == pc \in {"wait", "except"}

\* C22: every run of run_full_test ends (it returns or raises) whatever
\* the gateway answers, after at most 49 gateway calls and at most 35
\* fixed-interval sleeps.
C22_RunTerminates ==
    /\ [](Count(log, IsCall) <= 49 /\ Count(log, IsFixedSleep) <= 35)
    /\ (pc = "login") ~> RunEnded

\* A run that used the whole budget: 30 polls, none of them 'Done'.
C22_Witness ==
    /\ RunEnded
    /\ Count(log, IsCall) = 49
    /\ Count(log, IsFixedSleep) = 35
    /\ Count(log, IsStatusCall) = max_retries

---------------------------------------------------------------------------
(***************************************************************************)
(* getapp-test-script-2.py: the second probe.  main() builds one APITester *)
(* and then loops forever: run_tests calls the six tests in order,         *)
(* whatever each returns, and main sleeps 300 seconds.  The variables are  *)
(* those above; the ones this script does not have keep their first value. *)
(* result is here the pair (response, 1 or 2) of its _make_request, and    *)
(* results the dictionary run_tests fills, as a sequence of                *)
(* <<test_name, result>>.                                                  *)
(***************************************************************************)

\* What getapp-test-script-2.py does not have.
unusedVars == <<schedule, localVars, ghostVars, active_requests, logged, discarded>>

\* time.sleep(300)
RunInterval == 300

\* Success decided as getapp-test-script.py decides it.
Success_2_lenient(r) == r.exc = None /\ r.status_code < 400

\* "if 200 <= response.status_code < 300"
Success_2(r) == r.exc = None /\ r.status_code >= 200 /\ r.status_code < 300

\* The pair _make_request returns: (response, 1) or (None, 2).
Result_2(r) ==
    IF Success_2(r)
    THEN [response |-> Some([status_code |-> r.status_code, valid |-> r.valid,
                             value |-> r.value]),
          status |-> 1]
    ELSE [response |-> None, status |-> 2]

\* No _make_request returned in this step.
NoResult_2 == [response |-> None, status |-> 0]

\* The increment of request_counter{endpoint, status} for answer r.
Recorded_2(r) ==
    LET outcome == IF r.exc # None THEN "exception"
                   ELSE IF Success_2(r) THEN "success" ELSE "failure"
    IN  [request_counter |-> << <<request[1].endpoint, outcome>> >>,
         failed_requests |-> <<>>, test_failures |-> <<>>,
         download_failures |-> <<>>, import_status_failures |-> <<>>]

\* _make_request up to requests.get / requests.post: the URL is always
\* base_url joined to the endpoint, and the label is the endpoint as given.
make_request_send_2(method, endpoint, json_data) ==
    LET req == [op |-> "call", method |-> method,
                url |-> BASE_URL \o <<"/">> \o LStripSlash(endpoint),
                endpoint |-> endpoint, bearer |-> Bearer, json |-> json_data]
    IN  /\ request' = Some(req)
        /\ log' = Append(log, req)
        /\ metrics' = NoMetrics
        /\ result' = NoResult_2

\* _make_request from the answer r on.
make_request_return_2(r) ==
    /\ request # None
    /\ request' = None
    /\ metrics' = Recorded_2(r)
    /\ result' = Result_2(r)

\* A test that returns without a request.
NoRequest_2 ==
    /\ metrics' = NoMetrics
    /\ result' = NoResult_2
    /\ UNCHANGED <<request, log>>

\* run_tests: results[test_name] = result, and the next test is called.
TestResult(test_name, value, next) ==
    /\ results' = Append(results, <<test_name, value>>)
    /\ pc' = next
    /\ UNCHANGED exit_status

\* response.json() raises; nothing in run_tests or main catches it.
Uncaught ==
    /\ pc' = "raised"
    /\ exit_status' = Some(1)
    /\ UNCHANGED results

Init_2 ==
    /\ schedule = ""
    /\ username \in Credentials
    /\ password \in Credentials
    /\ pc = "main"
    /\ metrics_server = FALSE
    /\ auth_token = None
    /\ device_id = ""
    /\ bbox_array = <<>>
    /\ current_import_request_id = None
    /\ status = None
    /\ retry_count = 0
    /\ only_processing = TRUE
    /\ download_url = None
    /\ success_gpkg = FALSE
    /\ update_i = 0
    /\ health_i = 1
    /\ all_healthy = TRUE
    /\ request = None
    /\ active_requests = 0
    /\ metrics = NoMetrics
    /\ result = NoResult_2
    /\ exit_status = None
    /\ results = <<>>
    /\ logged = ""
    /\ log = <<>>
    /\ discarded = [auth_token |-> FALSE, current_import_request_id |-> FALSE]

\* main up to the loop: start_http_server(8000); tester = APITester().
main_2 ==
    /\ pc = "main"
    /\ metrics_server' = TRUE
    /\ APITester_init
    /\ pc' = "run"
    /\ NoRequest_2
    /\ UNCHANGED <<envVars, unusedVars, exit_status, results>>

\* The loop body starts: tester.run_tests() on the one tester.
run_tests ==
    /\ pc = "run"
    /\ results' = <<>>
    /\ log' = <<>>
    /\ pc' = "login"
    /\ metrics' = NoMetrics
    /\ result' = NoResult_2
    /\ UNCHANGED <<envVars, unusedVars, sessionVars, metrics_server, request,
                   exit_status>>

\* The loop body ends: the results are logged, time.sleep(300).
sleep_2 ==
    /\ pc = "sleep"
    /\ log' = Append(log, Sleep(RunInterval))
    /\ pc' = "run"
    /\ metrics' = NoMetrics
    /\ result' = NoResult_2
    /\ UNCHANGED <<envVars, unusedVars, sessionVars, metrics_server, request,
                   exit_status, results>>

login_2 ==
    /\ pc = "login"
    /\ IF MissingCredentials
       THEN /\ TestResult("login", 2, "discover")
            /\ NoRequest_2
       ELSE /\ make_request_send_2("POST", EP_LOGIN,
                    Some([username |-> username[1], password |-> password[1]]))
            /\ pc' = "login_resp"
            /\ UNCHANGED <<results, exit_status>>
    /\ UNCHANGED <<envVars, unusedVars, sessionVars, metrics_server>>

login_return_2 ==
    /\ pc = "login_resp"
    /\ \E r \in Answers(AccessTokens) :
         /\ make_request_return_2(r)
         /\ IF Success_2(r)
            THEN IF r.valid
                 THEN /\ auth_token' = r.value
                      /\ TestResult("login", 1, "discover")
                 ELSE /\ Uncaught
                      /\ UNCHANGED auth_token
            ELSE /\ TestResult("login", 2, "discover")
                 /\ UNCHANGED auth_token
    /\ UNCHANGED <<envVars, unusedVars, device_id, bbox_array,
                   current_import_request_id, metrics_server, log>>

discovery_2 ==
    /\ pc = "discover"
    /\ make_request_send_2("POST", EP_DISCOVER,
            Some([discoveryType |-> "get-map", ID |-> device_id]))
    /\ pc' = "discover_resp"
    /\ UNCHANGED <<envVars, unusedVars, sessionVars, metrics_server, results,
                   exit_status>>

discovery_return_2 ==
    /\ pc = "discover_resp"
    /\ \E r \in PlainAnswers :
         /\ make_request_return_2(r)
         /\ TestResult("discovery", Result_2(r).status, "import")
    /\ UNCHANGED <<envVars, unusedVars, sessionVars, metrics_server, log>>

import_map_2 ==
    /\ pc = "import"
    /\ \E bbox \in Range(bbox_array) :
         make_request_send_2("POST", EP_IMPORT_CREATE,
            Some([deviceId |-> device_id, boundingBox |-> bbox]))
    /\ pc' = "import_resp"
    /\ UNCHANGED <<envVars, unusedVars, sessionVars, metrics_server, results,
                   exit_status>>

import_map_return_2 ==
    /\ pc = "import_resp"
    /\ \E r \in Answers(ImportRequestIds) :
         /\ make_request_return_2(r)
         /\ IF Success_2(r)
            THEN IF r.valid
                 THEN /\ current_import_request_id' = r.value
                      /\ TestResult("import_map", 1, "poll")
                 ELSE /\ Uncaught
                      /\ UNCHANGED current_import_request_id
            ELSE /\ TestResult("import_map", 2, "poll")
                 /\ UNCHANGED current_import_request_id
    /\ UNCHANGED <<envVars, unusedVars, auth_token, device_id, bbox_array,
                   metrics_server, log>>

check_import_status_2 ==
    /\ pc = "poll"
    /\ IF NoRequestId
       THEN /\ TestResult("check_import_status", 2, "prepare_post")
            /\ NoRequest_2
       ELSE /\ make_request_send_2("GET",
                    EP_IMPORT_STATUS \o Fmt(current_import_request_id), None)
            /\ pc' = "poll_resp"
            /\ UNCHANGED <<results, exit_status>>
    /\ UNCHANGED <<envVars, unusedVars, sessionVars, metrics_server>>

check_import_status_return_2 ==
    /\ pc = "poll_resp"
    /\ \E r \in Answers(StatusValues) :
         /\ make_request_return_2(r)
         /\ IF Success_2(r)
            THEN IF r.valid
                 THEN TestResult("check_import_status",
                         IF r.value = Some("Done") THEN 1 ELSE 2,
                         "prepare_post")
                 ELSE Uncaught
            ELSE TestResult("check_import_status", 2, "prepare_post")
    /\ UNCHANGED <<envVars, unusedVars, sessionVars, metrics_server, log>>

prepare_delivery_2 ==
    /\ pc = "prepare_post"
    /\ IF NoRequestId
       THEN /\ TestResult("prepare_delivery", 2, "update")
            /\ NoRequest_2
       ELSE /\ make_request_send_2("POST", EP_PREPARE,
                    Some([catalogId |-> current_import_request_id,
                          deviceId |-> device_id, itemType |-> "map"]))
            /\ pc' = "prepare_post_resp"
            /\ UNCHANGED <<results, exit_status>>
    /\ UNCHANGED <<envVars, unusedVars, sessionVars, metrics_server>>

prepare_delivery_return_2 ==
    /\ pc = "prepare_post_resp"
    /\ \E r \in Answers({None, Some(<<"/", "files", "/", "abc123", ".gpkg">>)}) :
         /\ make_request_return_2(r)
         /\ IF Success_2(r)
            THEN IF r.valid
                 THEN TestResult("prepare_delivery", 1, "update")
                 ELSE Uncaught
            ELSE TestResult("prepare_delivery", 2, "update")
    /\ UNCHANGED <<envVars, unusedVars, sessionVars, metrics_server, log>>

update_download_status_2 ==
    /\ pc = "update"
    /\ IF NoRequestId
       THEN /\ TestResult("update_download_status", 2, "sleep")
            /\ NoRequest_2
       ELSE /\ make_request_send_2("POST", EP_UPDATE_STATUS,
                    Some([deviceId |-> device_id,
                          catalogId |-> current_import_request_id,
                          deliveryStatus |-> "Start"]))
            /\ pc' = "update_resp"
            /\ UNCHANGED <<results, exit_status>>
    /\ UNCHANGED <<envVars, unusedVars, sessionVars, metrics_server>>

update_download_status_return_2 ==
    /\ pc = "update_resp"
    /\ \E r \in PlainAnswers :
         /\ make_request_return_2(r)
         /\ TestResult("update_download_status", Result_2(r).status, "sleep")
    /\ UNCHANGED <<envVars, unusedVars, sessionVars, metrics_server, log>>

Next_2 ==
    \/ main_2
    \/ run_tests
    \/ login_2
    \/ login_return_2
    \/ discovery_2
    \/ discovery_return_2
    \/ import_map_2
    \/ import_map_return_2
    \/ check_import_status_2
    \/ check_import_status_return_2
    \/ prepare_delivery_2
    \/ prepare_delivery_return_2
    \/ update_download_status_2
    \/ update_download_status_return_2
    \/ sleep_2

Spec_2 == Init_2 /\ [][Next_2]_vars

---------------------------------------------------------------------------
(* Claims about getapp-test-script-2.py *)

\* The positions in the history of the calls to an endpoint that begins
\* with ep.
CallsTo(ep) ==
    {i \in 1..Len(log) : IsCall(log[i]) /\ HasPrefix(log[i].endpoint, ep)}

\* results[test_name] of the current run is value.
Resulted(test_name, value) ==
    \E i \in 1..Len(results) : results[i] = <<test_name, value>>

\* C23: every run_tests call starts from a fresh session: auth_token and
\* current_import_request_id are null when it starts, so a run whose login
\* failed sends no bearer token, and a run whose import_map failed sends no
\* status, prepare or update request for an import id.
C23_FreshSessionEachRun ==
    /\ pc = "login"
          => (auth_token = None /\ current_import_request_id = None)
    /\ Resulted("login", 2)
          => \A i \in 1..Len(log) : IsCall(log[i]) => log[i].bearer = None
    /\ Resulted("import_map", 2)
          => /\ CallsTo(EP_IMPORT_STATUS) = {}
             /\ CallsTo(EP_PREPARE) = {}
             /\ CallsTo(EP_UPDATE_STATUS) = {}

\* C24: check_import_status, prepare_delivery and update_download_status
\* send nothing and return 2 when current_import_request_id is unset; every
\* test returns 1 or 2, and 1 only when its request was sent and answered
\* with a 2xx status (and, for check_import_status, the status 'Done').
C24_GuardsAndResults ==
    [][/\ (pc \in {"poll", "prepare_post", "update"} /\ NoRequestId)
             => /\ request' = None /\ log' = log
                /\ Len(results') = Len(results) + 1
                /\ results'[Len(results')][2] = 2
       /\ Len(results') = Len(results) + 1
             => LET test == results'[Len(results')]
                IN  /\ test[2] \in {1, 2}
                    /\ test[2] = 1
                          => /\ request # None /\ request' = None
                             /\ result'.response # None
                             /\ result'.response[1].status_code \in 200..299
                             /\ test[1] = "check_import_status"
                                   => result'.response[1].value = Some("Done")]_vars

\* A later run in which all three guarded tests returned 2 without a
\* request, and login returned 1.
C24_Witness ==
    /\ pc = "sleep"
    /\ NoRequestId
    /\ Resulted("login", 1)
    /\ Resulted("check_import_status", 2)
    /\ Resulted("prepare_delivery", 2)
    /\ Resulted("update_download_status", 2)
    /\ CallsTo(EP_IMPORT_STATUS) \cup CallsTo(EP_PREPARE)
          \cup CallsTo(EP_UPDATE_STATUS) = {}
    /\ CallsTo(EP_LOGIN) # {}

====
